---------------------------- MODULE Spec2Model ----------------------------
(* Model of src/product_analyst_demo.py: discovery of discussion urls,     *)
(* extraction through a browser session and a language model, persistence  *)
(* into the posts/comments tables and the aggregated report.               *)
(* Spec is one run of main() against a fresh database; SpecStore is any    *)
(* sequence of save_data calls and clear blocks against one database.      *)
EXTENDS Integers, Sequences, FiniteSets, TLC

VARIABLES
    pc,            \* position of main()
    calls,         \* SpecStore: save_data and clear calls made so far
    args,          \* parsed command line of the current run
    env,           \* module-level configuration read from the environment
    posts,         \* table posts: set of rows [id, url, title, content]
    comments,      \* table comments: sequence of rows [post_id, content, author]
    nextPostId,    \* next value of the SERIAL sequence of posts.id
    openConns,     \* database connections currently open
    all_links,     \* search_all_sources: the set being merged
    num_results,   \* search_all_sources: its num_results parameter
    step,          \* search_all_sources: index of the next backend call
    lastCall,      \* what the latest backend call was given and returned
    urls,          \* main: the candidate list
    idx,           \* main: index in urls of the current loop iteration
    data_found,    \* main: data_found
    running,       \* coroutines started and not yet finished
    started,       \* urls whose extraction has been started in this run
    lastExtract,   \* what the latest crawl_discussion call did
    lastSave,      \* what the latest save_data call did
    report,        \* what analyze_sentiment_aggregated did in this run
    crash,         \* where an exception left main(), "none" if none did
    net,           \* kinds of external request the run has issued
    probe,         \* SpecClassify: the url handed to is_discussion_url
    verdict        \* SpecClassify: whether is_discussion_url returned, and what

vars == << pc, calls, args, env, posts, comments, nextPostId, openConns,
           all_links, num_results, step, lastCall, urls, idx,
           data_found, running, started, lastExtract, lastSave, report, crash,
           net, probe, verdict >>

-----------------------------------------------------------------------------
(* Bounds of the model *)

MaxCalls == 4       \* SpecStore: save_data and clear calls in a row
MaxRaw == 3         \* raw results one backend query returns
MaxLimit == 2       \* largest small value of num_results explored
MaxSegs == 4        \* SpecClassify: segments of a classified url
MaxFailPoint == 4   \* last statement of a save_data call that may fail

-----------------------------------------------------------------------------
(* Strings.  A url is "https://" (when scheme) followed by its segments     *)
(* joined by "/", with a final "/" when slash; segs[1] is the host.  A text *)
(* is a string known by a name and its length.                             *)

Url(sc, sg, sl) == [scheme |-> sc, segs |-> sg, slash |-> sl]

U_thread  == Url(TRUE, <<"www.reddit.com", "r", "blockblast", "Comments", "abc", "title">>, TRUE)
U_voz     == Url(TRUE, <<"voz.vn", "t", "blockblast.123">>, FALSE)
U_profile == Url(TRUE, <<"www.reddit.com", "user", "bob", "comments", "x1">>, TRUE)
Keyword   == Url(FALSE, <<"Block Blast">>, FALSE)

Text(s, n) == [s |-> s, len |-> n]
Empty == Text("", 0)

\* str.lower() on the segments the model uses
Lower(s) ==
    CASE s = "Comments" -> "comments"
      [] s = "User" -> "user"
      [] s = "Block Blast" -> "block blast"
      [] OTHER -> s

\* p in url.lower(), for a pattern p = "/" + name + "/"
ContainsPattern(url, name) ==
    \E i \in 1..Len(url.segs) :
        /\ Lower(url.segs[i]) = name
        /\ (i < Len(url.segs) \/ url.slash)
        /\ (i > 1 \/ url.scheme)

\* 'reddit.com/r/' in url.lower()
ContainsRedditR(url) ==
    \E i \in 1..Len(url.segs) - 1 :
        /\ Lower(url.segs[i]) \in {"reddit.com", "www.reddit.com"}
        /\ Lower(url.segs[i + 1]) = "r"
        /\ (i + 1 < Len(url.segs) \/ url.slash)

\* A url of the comments page of a subreddit post (line 104)
IsRedditComments(url) == ContainsRedditR(url) /\ ContainsPattern(url, "comments")

discussion_patterns == {"thread", "comments", "posts", "t", "topic"}
profile_patterns == {"u", "user", "members", "profile"}

\* is_discussion_url with its two loops in the other order
is_discussion_url_DiscussionFirst(url) ==
    IF \E p \in discussion_patterns : ContainsPattern(url, p) THEN TRUE
    ELSE IF \E p \in profile_patterns : ContainsPattern(url, p) THEN FALSE
    ELSE IF IsRedditComments(url) THEN TRUE
    ELSE FALSE

is_discussion_url(url) ==
    IF \E p \in profile_patterns : ContainsPattern(url, p) THEN FALSE
    ELSE IF \E p \in discussion_patterns : ContainsPattern(url, p) THEN TRUE
    ELSE IF IsRedditComments(url) THEN TRUE
    ELSE FALSE

\* input.startswith("http")
StartsWithHttp(input) == input.scheme

-----------------------------------------------------------------------------
(* Discussion records, as json.loads returns them.  keys is the set of     *)
(* keys the object has; a comment item is a string, an object or any other *)
(* JSON value.                                                             *)

StrItem(t) == [kind |-> "str", content |-> t, author |-> "", hasAuthor |-> FALSE]
DictItem(t, a) == [kind |-> "dict", content |-> t, author |-> a, hasAuthor |-> TRUE]
AnonItem(t) == [kind |-> "dict", content |-> t, author |-> "", hasAuthor |-> FALSE]
OtherItem == [kind |-> "other", content |-> Empty, author |-> "", hasAuthor |-> FALSE]

Record(k, t, l, c, cs) ==
    [keys |-> k, title |-> t, isList |-> l, content |-> c, comments |-> cs]

D_full == Record({"title", "content", "comments"}, Text("Post A", 6), FALSE,
                 <<Text("body", 4)>>,
                 <<DictItem(Text("c_long", 20), "ann"), StrItem(Text("c_short", 5))>>)
D_odd == Record({"content", "comments"}, Empty, TRUE,
                <<Text("p1", 2), Text("p2", 3)>>,
                <<AnonItem(Empty), AnonItem(Text("c_huge", 2001)), OtherItem,
                  StrItem(Text("c_edge", 11))>>)
D_bare == Record({"title"}, Text("Post C", 6), FALSE, <<>>, <<>>)
D_empty == Record({}, Empty, FALSE, <<>>, <<>>)

Records == {D_full, D_odd, D_bare, D_empty}

\* Python truth value of a dict and of a string
Truthy(d) == d.keys # {}
NonEmpty(t) == t.len > 0

\* "\n\n".join([str(c) for c in parts])
RECURSIVE Join(_)
Join(parts) ==
    IF Len(parts) = 0 THEN Empty
    ELSE IF Len(parts) = 1 THEN parts[1]
    ELSE LET rest == Join(Tail(parts))
         IN Text(parts[1].s \o "\n\n" \o rest.s, parts[1].len + 2 + rest.len)

\* save_data, lines 63-65
PostTitle(d) == IF NonEmpty(d.title) THEN d.title ELSE Text("No Title", 8)
PostContent(d) ==
    IF d.isList /\ Len(d.content) > 0 THEN Join(d.content)
    ELSE IF Len(d.content) = 0 THEN Empty
    ELSE d.content[1]

\* save_data, lines 82-83
CommentContent(c) == c.content
CommentAuthor(c) == IF c.kind = "dict" /\ c.hasAuthor THEN c.author ELSE "Unknown"

\* SELECT id FROM posts WHERE url = $1; 0 stands for None
SelectPostId(ps, u) ==
    IF \E p \in ps : p.url = u THEN (CHOOSE p \in ps : p.url = u).id ELSE 0

\* "if not post_id"
NeedsInsertNever(post_id) == FALSE
NeedsInsert(post_id) == post_id = 0

\* posts.url is UNIQUE: the INSERT of a stored url raises
UniqueViolation(ps, u) == \E p \in ps : p.url = u

\* "if c_content"
KeepsComment(c) == NonEmpty(CommentContent(c))

\* str(c_content) as it is stored
StoredContent(c) == CommentContent(c)

CommentRow(pid, c) ==
    [post_id |-> pid, content |-> StoredContent(c), author |-> CommentAuthor(c)]

\* The loop of lines 81-85 from item i on.  k numbers the statements the
\* connection has executed; statement number fail raises (0: none does).
RECURSIVE InsertComments(_, _, _, _, _, _)
InsertComments(cs, i, pid, rows, k, fail) ==
    IF i > Len(cs) THEN [rows |-> rows, raised |-> FALSE]
    ELSE IF cs[i].kind = "other" THEN [rows |-> rows, raised |-> TRUE]
    ELSE IF KeepsComment(cs[i])
         THEN IF k = fail THEN [rows |-> rows, raised |-> TRUE]
              ELSE InsertComments(cs, i + 1, pid, Append(rows, CommentRow(pid, cs[i])),
                                  k + 1, fail)
    ELSE InsertComments(cs, i + 1, pid, rows, k, fail)

\* data.get("comments", [])
CommentsOfMisspelt(d) == <<>>
CommentsOf(d) == IF "comments" \in d.keys THEN d.comments ELSE <<>>

\* The posts table after save_data found the url stored (lines 74-75): the
\* else branch logs and writes nothing
ExistingPostOverwritten(ps, u, d) ==
    {IF p.url = u THEN [p EXCEPT !.title = PostTitle(d), !.content = PostContent(d)]
     ELSE p : p \in ps}
ExistingPostKept(ps, u, d) == ps

\* The try block of save_data (lines 62-88) on an open connection.
SaveBody(ps, cms, nid, d, u, fail) ==
    LET found == SelectPostId(ps, u)
        same == [posts |-> ps, comments |-> cms, nextPostId |-> nid, raised |-> TRUE]
    IN  IF fail = 1 THEN same
        ELSE IF NeedsInsert(found)
        THEN IF fail = 2 \/ UniqueViolation(ps, u) THEN same
             ELSE LET row == [id |-> nid, url |-> u, title |-> PostTitle(d),
                              content |-> PostContent(d)]
                      r == InsertComments(CommentsOf(d), 1, nid, cms, 3, fail)
                  IN [posts |-> ps \cup {row}, comments |-> r.rows,
                      nextPostId |-> nid + 1, raised |-> r.raised]
        ELSE LET r == InsertComments(CommentsOf(d), 1, found, cms, 2, fail)
             IN [posts |-> ExistingPostKept(ps, u, d), comments |-> r.rows,
                 nextPostId |-> nid, raised |-> r.raised]

\* Statements save_data can execute for d: the SELECT, the INSERT of the
\* post and one INSERT per comment
FailPoints(d) ==
    {f \in 0..MaxFailPoint : f <= 2 + Len(CommentsOf(d))}

-----------------------------------------------------------------------------
(* Search backends.  A raw result is an item of the list a backend query   *)
(* yields: "url" carries a link, "nolink" has none, "bad" makes the loop   *)
(* over the results raise (an item that is no mapping, or a lazy result    *)
(* list that fails while it is read).                                      *)

P_thread == Url(FALSE, <<"", "r", "blockblast", "Comments", "abc", "title">>, TRUE)

RawUrl(u) == [kind |-> "url", url |-> u]
NoLink == [kind |-> "nolink", url |-> Keyword]
BadItem == [kind |-> "bad", url |-> Keyword]

DdgItems == {RawUrl(U_thread), RawUrl(U_voz), RawUrl(U_profile), BadItem}
RedditItems == {RawUrl(P_thread), NoLink, BadItem}

SeqsUpTo(S, n) == UNION {[1..k -> S] : k \in 0..n}

\* What one query can do: raise before it yields anything ("call"), answer
\* with a status other than 200 ("status"), or yield a list of raw results.
DdgOutcomes ==
    {[err |-> "call", raw |-> <<>>]}
        \cup {[err |-> "none", raw |-> r] : r \in SeqsUpTo(DdgItems, MaxRaw)}
RedditOutcomes ==
    {[err |-> "call", raw |-> <<>>], [err |-> "status", raw |-> <<>>]}
        \cup {[err |-> "none", raw |-> r] : r \in SeqsUpTo(RedditItems, MaxRaw)}

\* f"https://www.reddit.com{permalink}"
FullUrl(permalink) == Url(TRUE, <<"www.reddit.com">> \o Tail(permalink.segs), permalink.slash)

\* The loop of search_ddg_api (lines 118-123) and of one site of
\* search_site_specific (lines 178-184) from raw result i on
RECURSIVE FilterLoop(_, _, _, _)
FilterLoop(raw, i, links, cap) ==
    IF i > Len(raw) THEN [links |-> links, raised |-> FALSE]
    ELSE IF raw[i].kind = "bad" THEN [links |-> links, raised |-> TRUE]
    ELSE IF raw[i].kind = "url" /\ is_discussion_url(raw[i].url)
         THEN IF Len(links) + 1 >= cap
              THEN [links |-> Append(links, raw[i].url), raised |-> FALSE]
              ELSE FilterLoop(raw, i + 1, Append(links, raw[i].url), cap)
    ELSE FilterLoop(raw, i + 1, links, cap)

search_ddg_api(o, cap) ==
    IF o.err = "call" THEN [links |-> <<>>, raised |-> TRUE]
    ELSE FilterLoop(o.raw, 1, <<>>, cap)

\* The loop of search_reddit_api (lines 149-154) from post i on
RECURSIVE PermalinkLoop(_, _, _)
PermalinkLoop(raw, i, links) ==
    IF i > Len(raw) THEN [links |-> links, raised |-> FALSE]
    ELSE IF raw[i].kind = "bad" THEN [links |-> links, raised |-> TRUE]
    ELSE IF raw[i].kind = "url"
         THEN PermalinkLoop(raw, i + 1, Append(links, FullUrl(raw[i].url)))
    ELSE PermalinkLoop(raw, i + 1, links)

search_reddit_api(o) ==
    IF o.err = "call" THEN [links |-> <<>>, raised |-> TRUE]
    ELSE IF o.err = "status" THEN [links |-> <<>>, raised |-> FALSE]
    ELSE PermalinkLoop(o.raw, 1, <<>>)

Range(f) == {f[i] : i \in DOMAIN f}

\* keyword.lower().replace(" ", "")
KeywordLower(k) == IF Lower(k.segs[1]) = "block blast" THEN "blockblast" ELSE Lower(k.segs[1])
possible_subreddits(k) == <<"blockblast", KeywordLower(k)>>
sites == <<"reddit.com", "voz.vn", "tinhte.vn">>
NumPerSite == 3
NumResultsDefault == 10

\* Backend calls of search_all_sources, in order
FirstSub == 3
FirstSite == FirstSub + Len(possible_subreddits(Keyword))
LastStep == FirstSite + Len(sites)

\* list(all_links)[:num_results]: a set is listed in an order of its own
TruncationsUncut(links, n) ==
    LET m == Cardinality(links)
    IN {q \in [1..m -> links] : \A i, j \in 1..m : i # j => q[i] # q[j]}
Truncations(links, n) ==
    LET m == IF Cardinality(links) < n THEN Cardinality(links) ELSE n
    IN {q \in [1..m -> links] : \A i, j \in 1..m : i # j => q[i] # q[j]}

-----------------------------------------------------------------------------
(* crawl_discussion.  The model's reply is a sequence of tokens: a fence   *)
(* marker, the language tag "json", one JSON value or other text.          *)

Tok(t, d) == [t |-> t, d |-> d]
Fence == Tok("fence", D_empty)
Lang == Tok("lang", D_empty)
Junk == Tok("junk", D_empty)
Array == Tok("array", D_empty)
Obj(d) == Tok("obj", d)

MinMarkdown == 100

\* raw.split("```")[1] for a raw that starts with a fence: the tokens
\* between the first fence and the next one
RECURSIVE UpToFence(_)
UpToFence(toks) ==
    IF Len(toks) = 0 \/ Head(toks).t = "fence" THEN <<>>
    ELSE <<Head(toks)>> \o UpToFence(Tail(toks))

\* lines 272-276
StripFence(raw) ==
    IF Len(raw) > 0 /\ Head(raw).t = "fence"
    THEN LET inner == UpToFence(Tail(raw))
         IN IF Len(inner) > 0 /\ Head(inner).t = "lang" THEN Tail(inner) ELSE inner
    ELSE raw

\* json.loads(raw) followed by the data.get calls of lines 279-280: a value
\* when raw is one JSON object, an exception otherwise
ParsesToObject(toks) == Len(toks) = 1 /\ toks[1].t = "obj"

CrawlOutcomes ==
    {[browser |-> "raise", mdlen |-> 0], [browser |-> "failed", mdlen |-> 0]}
        \cup {[browser |-> "ok", mdlen |-> n] : n \in {0, MinMarkdown - 1, MinMarkdown}}

LlmReplies ==
    {[err |-> TRUE, raw |-> <<>>], [err |-> FALSE, raw |-> <<Junk>>],
     [err |-> FALSE, raw |-> <<Array>>],
     [err |-> FALSE, raw |-> <<Fence, Obj(D_bare), Fence>>],
     [err |-> FALSE, raw |-> <<Fence, Lang, Obj(D_bare)>>],
     [err |-> FALSE, raw |-> <<Junk, Fence, Lang, Obj(D_bare), Fence>>]}
        \cup {[err |-> FALSE, raw |-> <<Obj(d)>>] : d \in Records}
        \cup {[err |-> FALSE, raw |-> <<Fence, Lang, Obj(d), Fence>>] : d \in Records}

\* The try block of lines 264-285: the record, or None
Extracted(reply) ==
    IF reply.err THEN [none |-> TRUE, d |-> D_empty]
    ELSE IF ParsesToObject(StripFence(reply.raw))
         THEN [none |-> FALSE, d |-> StripFence(reply.raw)[1].d]
    ELSE [none |-> TRUE, d |-> D_empty]

\* crawl_discussion(url) under a browser outcome c and a model reply r
crawl_discussion(url, c, r) ==
    IF c.browser = "raise"
    THEN [url |-> url, via |-> "generic", browser |-> TRUE, llm |-> FALSE,
          raised |-> TRUE, none |-> TRUE, d |-> D_empty]
    ELSE IF c.browser = "failed" \/ c.mdlen < MinMarkdown
    THEN [url |-> url, via |-> "generic", browser |-> TRUE, llm |-> FALSE,
          raised |-> FALSE, none |-> TRUE, d |-> D_empty]
    ELSE [url |-> url, via |-> "generic", browser |-> TRUE, llm |-> TRUE,
          raised |-> FALSE, none |-> Extracted(r).none, d |-> Extracted(r).d]

-----------------------------------------------------------------------------
(* analyze_sentiment_aggregated *)

ReportLimit == 300

\* SELECT p.title, c.content FROM posts p JOIN comments c ON p.id = c.post_id
\* ... LIMIT 300
ReportRows(ps, cms) ==
    LET joined == SelectSeq(cms, LAMBDA c : \E p \in ps : p.id = c.post_id)
    IN IF Len(joined) > ReportLimit THEN SubSeq(joined, 1, ReportLimit) ELSE joined

\* "if not rows"
NoRowsNever(rows) == FALSE
NoRows(rows) == Len(rows) = 0

\* What the connected reporter does: db is "raise" when a statement fails,
\* llm is "raise" when litellm.completion fails
analyze(ps, cms, db, llm) ==
    IF db = "raise"
    THEN [ran |-> TRUE, queried |-> FALSE, rows |-> 0, llm |-> FALSE, outcome |-> "failed"]
    ELSE IF NoRows(ReportRows(ps, cms))
    THEN [ran |-> TRUE, queried |-> TRUE, rows |-> 0, llm |-> FALSE, outcome |-> "no_data"]
    ELSE [ran |-> TRUE, queried |-> TRUE, rows |-> Len(ReportRows(ps, cms)), llm |-> TRUE,
          outcome |-> IF llm = "raise" THEN "failed" ELSE "printed"]

-----------------------------------------------------------------------------
(* The state machine *)

ArgsSet ==
    {[mode |-> m.mode, input |-> m.input, clear_db |-> c] :
        m \in {[mode |-> "search", input |-> Keyword],
               [mode |-> "url", input |-> U_thread]},
        c \in BOOLEAN}
Limits == (0..MaxLimit) \cup {NumResultsDefault}

NoCall == [backend |-> "none", err |-> "none", links |-> <<>>, raised |-> FALSE,
           allFailed |-> TRUE]
NoExtract == [url |-> Keyword, via |-> "none", browser |-> FALSE, llm |-> FALSE,
              raised |-> FALSE, none |-> TRUE]
NoSave == [url |-> Keyword, outcome |-> "none"]
NoReport == [ran |-> FALSE, queried |-> FALSE, rows |-> 0, llm |-> FALSE,
             outcome |-> "none"]

NoVerdict == [returned |-> FALSE, value |-> FALSE]

CrawlTask(i, u) == [kind |-> "crawl", i |-> i, url |-> u, d |-> D_empty]
SaveTask(i, u, d) == [kind |-> "save", i |-> i, url |-> u, d |-> d]

\* The program before it starts, on a fresh database
InitProgram ==
    /\ pc = "idle"
    /\ calls = 0
    /\ args = [mode |-> "search", input |-> Keyword, clear_db |-> FALSE]
    /\ env = [db |-> TRUE, key |-> TRUE]
    /\ posts = {}
    /\ comments = <<>>
    /\ nextPostId = 1
    /\ openConns = 0
    /\ all_links = {}
    /\ num_results = NumResultsDefault
    /\ step = 0
    /\ lastCall = NoCall
    /\ urls = <<>>
    /\ idx = 0
    /\ data_found = FALSE
    /\ running = {}
    /\ started = <<>>
    /\ lastExtract = NoExtract
    /\ lastSave = NoSave
    /\ report = NoReport
    /\ crash = "none"
    /\ net = {}
    /\ verdict = NoVerdict

Init ==
    /\ InitProgram
    /\ probe = Keyword

db_vars == << posts, comments, nextPostId >>
search_vars == << all_links, num_results, step, lastCall >>
loop_vars == << urls, idx, data_found, running, started, lastExtract, lastSave >>
classify_vars == << probe, verdict >>

\* What load_dotenv and os.getenv find (lines 18-22): db tells whether
\* DATABASE_URL is set, key whether GEMINI_API_KEY is
Envs == [db : BOOLEAN, key : BOOLEAN]

\* The program starts: the environment is read, the command line parsed
\* and DATABASE_URL checked (lines 18-26, 331-340); GEMINI_API_KEY is not
\* looked at before it is passed to litellm.completion
Start ==
    /\ pc = "idle"
    /\ \E a \in ArgsSet : args' = a
    /\ \E e \in Envs : env' = e
    /\ pc' = IF env'.db THEN "init_db" ELSE "done"
    /\ UNCHANGED << calls, openConns, crash, report, net >>
    /\ UNCHANGED << db_vars, search_vars, loop_vars >>
    /\ UNCHANGED classify_vars

\* init_db (lines 46-55): every exception is caught; a failing statement
\* skips conn.close()
InitDb ==
    /\ pc = "init_db"
    /\ \E o \in {"ok", "connect", "execute"} :
           openConns' = IF o = "execute" THEN openConns + 1 ELSE openConns
    /\ net' = net \cup {"db"}
    /\ pc' = "clear"
    /\ UNCHANGED << calls, args, env, crash, report >>
    /\ UNCHANGED << db_vars, search_vars, loop_vars >>
    /\ UNCHANGED classify_vars

\* What the block of lines 346-349 can do: run to its end, or raise at the
\* connect, at DELETE FROM comments or at DELETE FROM posts
ClearOutcomes == {"ok", "connect", "delete_comments", "delete_posts"}

\* lines 346-349 under outcome o, continuing at pc value next: nothing
\* catches an exception here, and a failing statement skips conn.close()
ClearBlock(o, next) ==
    /\ comments' = IF o \in {"ok", "delete_posts"} THEN <<>> ELSE comments
    /\ posts' = IF o = "ok" THEN {} ELSE posts
    /\ openConns' = IF o \in {"delete_comments", "delete_posts"}
                    THEN openConns + 1 ELSE openConns
    /\ crash' = IF o = "ok" THEN "none" ELSE "clear"
    /\ net' = net \cup {"db"}
    /\ pc' = IF o = "ok" THEN next ELSE "crashed"

\* lines 345-350
ClearDb ==
    /\ pc = "clear"
    /\ IF args.clear_db
       THEN \E o \in ClearOutcomes : ClearBlock(o, "select")
       ELSE /\ pc' = "select"
            /\ UNCHANGED << posts, comments, openConns, crash, net >>
    /\ UNCHANGED << calls, args, env, nextPostId, report >>
    /\ UNCHANGED << search_vars, loop_vars >>
    /\ UNCHANGED classify_vars

\* lines 352-356
SelectUrls ==
    /\ pc = "select"
    /\ IF args.mode = "search" /\ ~StartsWithHttp(args.input)
       THEN /\ pc' = "search"
            /\ step' = 1
            /\ all_links' = {}
            /\ \E n \in Limits : num_results' = n
            /\ urls' = <<>>
       ELSE /\ pc' = "loop"
            /\ urls' = IF args.mode = "url" \/ StartsWithHttp(args.input)
                       THEN <<args.input>> ELSE <<>>
            /\ UNCHANGED << step, all_links, num_results >>
    /\ UNCHANGED << calls, args, env, openConns, crash, report, lastCall, net >>
    /\ UNCHANGED << db_vars, idx, data_found, running, started, lastExtract, lastSave >>
    /\ UNCHANGED classify_vars

\* The record of a backend call; allFailed tells whether every call of this
\* discovery so far raised before it yielded a result
Call(b, o, r) ==
    [backend |-> b, err |-> o.err, links |-> r.links, raised |-> r.raised,
     allFailed |-> lastCall.allFailed /\ o.err = "call"]

\* "except Exception as e" of lines 125, 158 and 186: an exception raised
\* inside a backend function does not leave it
BackendErrorUncaught == FALSE
BackendErrorCaught == TRUE

\* A backend call returned r to search_all_sources, or raised
SearchCallEnds(r) ==
    IF r.raised /\ ~BackendErrorCaught
    THEN /\ pc' = "crashed"
         /\ crash' = "search"
         /\ UNCHANGED << all_links, step >>
    ELSE /\ all_links' = all_links \cup Range(r.links)
         /\ step' = step + 1
         /\ UNCHANGED << pc, crash >>

search_frame ==
    /\ net' = net \cup {"search"}
    /\ UNCHANGED << calls, args, env, openConns, report, num_results >>
    /\ UNCHANGED << db_vars, loop_vars, classify_vars >>

\* lines 199-200
SearchDdg ==
    /\ pc = "search"
    /\ step = 1
    /\ \E o \in DdgOutcomes :
           LET r == search_ddg_api(o, num_results)
           IN /\ SearchCallEnds(r)
              /\ lastCall' = Call("ddg", o, r)
    /\ search_frame

\* lines 203-204 and one iteration of the loop of lines 210-212
SearchReddit ==
    /\ pc = "search"
    /\ step \in 2..(FirstSite - 1)
    /\ \E o \in RedditOutcomes :
           LET r == search_reddit_api(o)
           IN /\ SearchCallEnds(r)
              /\ lastCall' = Call("reddit", o, r)
    /\ search_frame

\* one site of search_site_specific (lines 171-187), whose links line 216
\* merges
SearchSite ==
    /\ pc = "search"
    /\ step \in FirstSite..(LastStep - 1)
    /\ \E o \in DdgOutcomes :
           LET r == search_ddg_api(o, NumPerSite)
           IN /\ SearchCallEnds(r)
              /\ lastCall' = Call("site", o, r)
    /\ search_frame

\* lines 219-222: the result of search_all_sources, which line 354 assigns
SearchFinish ==
    /\ pc = "search"
    /\ step = LastStep
    /\ \E q \in Truncations(all_links, num_results) : urls' = q
    /\ pc' = "searched"
    /\ UNCHANGED << calls, args, env, openConns, crash, report, net >>
    /\ UNCHANGED << db_vars, search_vars >>
    /\ UNCHANGED << idx, data_found, running, started, lastExtract, lastSave >>
    /\ UNCHANGED classify_vars

\* search_all_sources has returned: its locals are gone and main reaches
\* the loop of line 359
SearchReturn ==
    /\ pc = "searched"
    /\ pc' = "loop"
    /\ step' = 0
    /\ all_links' = {}
    /\ num_results' = NumResultsDefault
    /\ lastCall' = NoCall
    /\ UNCHANGED << calls, args, env, openConns, crash, report, net >>
    /\ UNCHANGED << db_vars, loop_vars >>
    /\ UNCHANGED classify_vars

\* Where main is once it has called save_data: "await save_data(data, url)"
\* suspends it until the call returns
PcAfterSaveCallDetached == "loop"
PcAfterSaveCall == "await_save"

\* "for url in urls" (line 359) takes the next url and line 360 calls
\* crawl_discussion, or the loop ends
LoopStep ==
    /\ pc = "loop"
    /\ idx' = idx + 1
    /\ IF idx' <= Len(urls)
       THEN /\ running' = running \cup {CrawlTask(idx', urls[idx'])}
            /\ started' = Append(started, urls[idx'])
            /\ pc' = "await_crawl"
       ELSE /\ pc' = "after_loop"
            /\ UNCHANGED << running, started >>
    /\ UNCHANGED << calls, args, env, openConns, crash, report, urls, data_found,
                    lastExtract, lastSave, net >>
    /\ UNCHANGED << db_vars, search_vars >>
    /\ UNCHANGED classify_vars

\* crawl_discussion returns or raises (lines 224-285); main goes on with
\* lines 361-363
CrawlDone ==
    /\ pc = "await_crawl"
    /\ \E t \in running, c \in CrawlOutcomes, r \in LlmReplies :
        LET x == crawl_discussion(t.url, c, r)
        IN  /\ t.kind = "crawl"
            /\ lastExtract' = [f \in DOMAIN NoExtract |-> x[f]]
            /\ net' = net \cup {"render"} \cup (IF x.llm THEN {"model"} ELSE {})
            /\ IF x.raised
               THEN /\ crash' = "crawl"
                    /\ pc' = "crashed"
                    /\ running' = running \ {t}
                    /\ UNCHANGED data_found
               ELSE IF ~x.none /\ Truthy(x.d)
               THEN /\ data_found' = TRUE
                    /\ running' = (running \ {t}) \cup {SaveTask(t.i, t.url, x.d)}
                    /\ pc' = PcAfterSaveCall
                    /\ UNCHANGED crash
               ELSE /\ pc' = "loop"
                    /\ running' = running \ {t}
                    /\ UNCHANGED << crash, data_found >>
    /\ UNCHANGED << calls, args, env, openConns, report, urls, idx, started, lastSave >>
    /\ UNCHANGED << db_vars, search_vars >>
    /\ UNCHANGED classify_vars

\* Where the caller of save_data goes on when the call returns: main at
\* the head of its loop, the caller of SpecStore at its next call
ResumeAfterSave ==
    CASE pc = "await_save" -> "loop"
      [] pc = "store_save" -> "idle"
      [] OTHER -> pc

\* save_data runs to its end (lines 57-90).  The connect of line 61 is
\* outside the try block: when it raises, the exception leaves save_data.
SaveDone ==
    /\ \E t \in running :
        /\ t.kind = "save"
        /\ running' = running \ {t}
        /\ IF ~Truthy(t.d)
           THEN /\ lastSave' = [url |-> t.url, outcome |-> "skipped"]
                /\ pc' = ResumeAfterSave
                /\ UNCHANGED << db_vars, crash, net >>
           ELSE \/ /\ lastSave' = [url |-> t.url, outcome |-> "noconnect"]
                   /\ net' = net \cup {"db"}
                   /\ crash' = "save"
                   /\ pc' = "crashed"
                   /\ UNCHANGED db_vars
                \/ \E fail \in FailPoints(t.d) :
                     LET r == SaveBody(posts, comments, nextPostId, t.d, t.url, fail)
                     IN /\ posts' = r.posts
                        /\ comments' = r.comments
                        /\ nextPostId' = r.nextPostId
                        /\ lastSave' = [url |-> t.url,
                                        outcome |-> IF r.raised THEN "caught" ELSE "ok"]
                        /\ net' = net \cup {"db"}
                        /\ pc' = ResumeAfterSave
                        /\ UNCHANGED crash
    /\ UNCHANGED << calls, args, env, openConns, report, urls, idx, data_found, started,
                    lastExtract >>
    /\ UNCHANGED search_vars
    /\ UNCHANGED classify_vars

\* "if data_found" (line 365)
ShouldReportAlways(found) == TRUE
ShouldReport(found) == found

\* lines 365-366: analyze_sentiment_aggregated (lines 287-329); its connect
\* is outside the try block
Analyze ==
    /\ pc = "after_loop"
    /\ ShouldReport(data_found)
    /\ \/ /\ report' = [ran |-> TRUE, queried |-> FALSE, rows |-> 0, llm |-> FALSE,
                        outcome |-> "raise"]
          /\ net' = net \cup {"db"}
          /\ crash' = "report"
          /\ pc' = "crashed"
       \/ \E db \in {"ok", "raise"}, llm \in {"ok", "raise"} :
            /\ report' = analyze(posts, comments, db, llm)
            /\ net' = net \cup {"db"} \cup (IF report'.llm THEN {"model"} ELSE {})
            /\ pc' = "done"
            /\ UNCHANGED crash
    /\ UNCHANGED << calls, args, env, openConns >>
    /\ UNCHANGED << db_vars, search_vars, loop_vars >>
    /\ UNCHANGED classify_vars

\* lines 367-368
WarnNoData ==
    /\ pc = "after_loop"
    /\ ~ShouldReport(data_found)
    /\ report' = [NoReport EXCEPT !.outcome = "no_crawl"]
    /\ pc' = "done"
    /\ UNCHANGED << calls, args, env, openConns, crash, net >>
    /\ UNCHANGED << db_vars, search_vars, loop_vars >>
    /\ UNCHANGED classify_vars

Next ==
    \/ Start
    \/ InitDb
    \/ ClearDb
    \/ SelectUrls
    \/ SearchDdg
    \/ SearchReddit
    \/ SearchSite
    \/ SearchFinish
    \/ SearchReturn
    \/ LoopStep
    \/ CrawlDone
    \/ SaveDone
    \/ Analyze
    \/ WarnNoData

Spec == Init /\ [][Next]_vars

-----------------------------------------------------------------------------
(* save_data and the clear block on their own: any sequence of up to       *)
(* MaxCalls calls, on the database the calls before have left.             *)

StoreUrls == {U_thread, U_voz}

\* save_data(d, u) is called (line 363, in any run of the program)
CallSave ==
    /\ pc \in {"idle", "crashed"}
    /\ calls < MaxCalls
    /\ calls' = calls + 1
    /\ \E d \in Records, u \in StoreUrls : running' = {SaveTask(calls', u, d)}
    /\ pc' = "store_save"
    /\ crash' = "none"
    /\ openConns' = 0
    /\ UNCHANGED << args, env, report, urls, idx, data_found, started, lastExtract,
                    lastSave, net >>
    /\ UNCHANGED << db_vars, search_vars >>
    /\ UNCHANGED classify_vars

\* The clear block runs (lines 346-349, in a run with --clear-db)
CallClear ==
    /\ pc \in {"idle", "crashed"}
    /\ calls < MaxCalls
    /\ calls' = calls + 1
    /\ \E o \in ClearOutcomes : ClearBlock(o, "idle")
    /\ UNCHANGED << args, env, nextPostId, report >>
    /\ UNCHANGED << search_vars, loop_vars >>
    /\ UNCHANGED classify_vars

NextStore ==
    \/ CallSave
    \/ SaveDone
    \/ CallClear

SpecStore == Init /\ [][NextStore]_vars

-----------------------------------------------------------------------------
(* is_discussion_url on its own: one call on any url of up to MaxSegs      *)
(* segments, with or without a scheme and a final "/".                     *)

Segments == {"www.reddit.com", "r", "User", "Comments", "thread", "bob"}

ProbeUrls ==
    {Url(sc, sg, sl) : sc \in BOOLEAN,
                       sg \in UNION {[1..k -> Segments] : k \in 1..MaxSegs},
                       sl \in BOOLEAN}

InitClassify ==
    /\ InitProgram
    /\ probe \in ProbeUrls

\* is_discussion_url(probe) is called and returns (lines 92-106)
Classify ==
    /\ ~verdict.returned
    /\ verdict' = [returned |-> TRUE, value |-> is_discussion_url(probe)]
    /\ UNCHANGED << pc, calls, args, env, openConns, crash, report, net, probe >>
    /\ UNCHANGED << db_vars, search_vars, loop_vars >>

NextClassify == Classify

SpecClassify == InitClassify /\ [][NextClassify]_vars

-----------------------------------------------------------------------------
(* Properties *)

\* The save_data call t returns in this step
SaveReturns(t) == t \in running /\ t.kind = "save" /\ t \notin running'

Stored(ps, u) == \E p \in ps : p.url = u

OnePostPerUrl == \A p, q \in posts : p.url = q.url => p = q

\* C1: whatever saves and clears have happened, posts holds at most one row
\* per url; a save_data call for a url that is not stored, whose statements
\* the database executes, adds exactly one row, which carries that url, and
\* a call for a stored url adds none.
C1_OnePostPerUrl ==
    /\ []OnePostPerUrl
    /\ [][\A t \in running : SaveReturns(t) =>
            /\ Stored(posts, t.url) => posts' = posts
            /\ ~Stored(posts, t.url) =>
                   /\ posts \subseteq posts'
                   /\ \A p \in posts' \ posts : p.url = t.url
                   /\ Cardinality(posts' \ posts) <= 1
                   /\ lastSave'.outcome = "ok" => Cardinality(posts' \ posts) = 1]_vars

\* C1 witness: the one post ever inserted is the untitled one of D_odd, and
\* the latest call, which stored the two comments of D_full under the same
\* url, found it stored
C1_Witness ==
    /\ lastSave.outcome = "ok"
    /\ nextPostId = 2
    /\ \E p \in posts : posts = {p} /\ p.url = lastSave.url /\ p.title.s = "No Title"
    /\ Len(comments) = 3

\* The comments save_data stores for record d: those with a non-empty content
NonEmptyComments(d) ==
    IF "comments" \in d.keys THEN SelectSeq(d.comments, LAMBDA c : c.content.len > 0)
    ELSE <<>>

\* C2: a save_data call that ends without an exception appends one comment
\* row per non-empty comment of its record, in order and referencing the one
\* post of its url, whether or not the url was stored before, and leaves the
\* rows of earlier calls in place: saving a record twice stores them twice.
C2_ResaveDuplicatesComments ==
    [][\A t \in running : (SaveReturns(t) /\ lastSave'.outcome = "ok") =>
        LET kept == NonEmptyComments(t.d)
            n == Len(comments)
        IN  /\ Len(comments') = n + Len(kept)
            /\ SubSeq(comments', 1, n) = comments
            /\ Cardinality({p \in posts' : p.url = t.url}) = 1
            /\ \A i \in 1..Len(kept) :
                  /\ comments'[n + i].content = kept[i].content
                  /\ comments'[n + i].post_id = SelectPostId(posts', t.url)]_vars

\* C2 witness: one post, and the two comments of D_full stored twice
C2_Witness ==
    /\ Cardinality(posts) = 1
    /\ Len(comments) = 4
    /\ comments[1] = comments[3]
    /\ comments[2] = comments[4]
    /\ lastSave.outcome = "ok"

\* C3: every stored comment has a content of more than 10 and at most 2000
\* characters.
C3_StoredLengthBounds ==
    \A i \in 1..Len(comments) :
        comments[i].content.len > 10 /\ comments[i].content.len <= 2000

\* C4: no exception leaves crawl_discussion; every failure gives None.
C4_NeverPropagates == ~lastExtract.raised /\ crash # "crawl"

\* C5: an exception of a persistence write (the connect or a statement of
\* save_data) does not leave save_data and does not end the run.
C5_SaveFailureCaught == crash # "save"

C7_BoundedDistinctFromBackends ==
    /\ [](pc = "searched" =>
            /\ Len(urls) <= num_results
            /\ \A i, j \in 1..Len(urls) : i # j => urls[i] # urls[j]
            /\ Range(urls) \subseteq all_links)
    /\ []((pc = "search" /\ step = 1) => all_links = {})
    /\ [][(pc = "search" /\ pc' = "search") =>
            all_links' \subseteq all_links \cup Range(lastCall'.links)]_vars

\* C7 witness: the merged set was larger than num_results and was cut
C7_Witness ==
    /\ pc = "searched"
    /\ num_results > 0
    /\ Cardinality(all_links) > num_results
    /\ Len(urls) = num_results

\* C8: a url of platform R with the comments path shape is extracted by the
\* Structured Extractor, without browser session and without model call;
\* every other url by the Generic Extractor.
C8_RoutedByUrlShape ==
    lastExtract.via # "none" =>
        IF IsRedditComments(lastExtract.url)
        THEN lastExtract.via = "structured" /\ ~lastExtract.browser /\ ~lastExtract.llm
        ELSE lastExtract.via = "generic"

\* C9: at most one crawl_discussion or save_data call is in progress, the
\* extractions are started in list order, and the call in progress belongs
\* to the url started last: nothing of url i+1 begins before the extraction
\* and the save of url i have returned.
C9_OneUrlAtATime ==
    /\ Cardinality(running) <= 1
    /\ Len(started) <= Len(urls)
    /\ started = SubSeq(urls, 1, Len(started))
    /\ \A t \in running : t.i = Len(started) /\ t.url = urls[t.i]

\* C9 witness: the second url is being extracted after the save of the first
\* has returned
C9_Witness ==
    /\ Len(urls) = 2
    /\ \E t \in running : t.kind = "crawl" /\ t.i = 2
    /\ lastSave.url = urls[1]
    /\ lastSave.outcome = "ok"

\* No comment row joins a post row
NoJoinedRow ==
    \A i \in 1..Len(comments) : \A p \in posts : p.id # comments[i].post_id

\* C10: when the report query has returned and no comment row joins a post,
\* the reporter ends with "no data", has called no model and has not raised.
C10_NoRowsNoModelCall ==
    (report.queried /\ NoJoinedRow) =>
        (report.outcome = "no_data" /\ ~report.llm /\ crash # "report")

\* C10 witness: the reporter ran over a stored post that has no comment
C10_Witness ==
    /\ report.queried
    /\ posts # {}
    /\ Len(comments) = 0
    /\ report.outcome = "no_data"

\* C11: a run started without DATABASE_URL or without GEMINI_API_KEY issues
\* no search request, page rendering, model call or database operation.
C11_MissingConfigNoActivity ==
    (pc # "idle" /\ (~env.db \/ ~env.key)) => net = {}

\* C12: is_discussion_url returns false for every url that contains one of
\* /u/, /user/, /members/, /profile/ in any letter case, whatever else the
\* url contains; for any other url it returns true exactly when the url
\* contains one of /thread/, /comments/, /posts/, /t/, /topic/.
C12_ProfileExcludesElseDiscussion ==
    verdict.returned =>
        verdict.value =
            (/\ ~\E p \in {"u", "user", "members", "profile"} : ContainsPattern(probe, p)
             /\ \E p \in {"thread", "comments", "posts", "t", "topic"} :
                    ContainsPattern(probe, p))

\* C12 witness: false was returned for a subreddit comments url that also
\* contains /user/, spelt with a capital
C12_Witness ==
    /\ verdict.returned
    /\ ~verdict.value
    /\ IsRedditComments(probe)
    /\ \E i \in 1..Len(probe.segs) : probe.segs[i] = "User"
    /\ ContainsPattern(probe, "user")

\* C13: every database operation (init_db, the clear block, save_data, the
\* reporter) has closed the connection it opened when it ends, however it
\* ends: between operations, and when the run is over, none is open.
C13_OperationsCloseTheirConnection == openConns = 0

\* s is t or t with rows appended
IsPrefix(t, s) == Len(t) <= Len(s) /\ SubSeq(s, 1, Len(t)) = t

\* C14: a save_data call leaves every stored post row as it is (id, url,
\* title and content), also the row of its own url when the record carries
\* another title and content, and leaves every stored comment row in place;
\* a step that removes or changes a stored row is the clear block, which
\* deletes all comments and then all posts.
C14_OnlyClearRemovesRows ==
    [][/\ \A t \in running : SaveReturns(t) =>
              /\ posts \subseteq posts'
              /\ IsPrefix(comments, comments')
       /\ (~(posts \subseteq posts') \/ ~IsPrefix(comments, comments')) =>
              /\ ~\E t \in running : SaveReturns(t)
              /\ comments' = <<>>
              /\ posts' \in {posts, {}}]_vars

\* C14 witness: the only post ever inserted is that of D_bare, which has no
\* comment, and a later save of D_full under its url, with another title,
\* has stored two comments and left the row as it was
C14_Witness ==
    /\ lastSave.outcome = "ok"
    /\ nextPostId = 2
    /\ \E p \in posts :
           /\ posts = {p}
           /\ p.url = lastSave.url
           /\ p.title = D_bare.title
           /\ p.content = PostContent(D_bare)
    /\ Len(comments) = 2

=============================================================================
